---- MODULE Spec2Model ----
(***************************************************************************)
(* Model of lighthouse-news-api: the rate-limited, retrying fetch client   *)
(* (fetchXML / waitForRateLimit), the balanced multi-source selection      *)
(* (getBalancedArticles) and the list endpoint with its in-memory cache.   *)
(* Time is counted in seconds (1 unit = 1000 ms of Date.now()).            *)
(***************************************************************************)
EXTENDS Integers, Sequences, FiniteSets, TLC

(***************************************************************************)
(* Bounds of the model                                                     *)
(***************************************************************************)
NumCalls == 2          \* concurrent fetchXML calls
MaxElapsed == 4        \* seconds of clock explored with concurrent calls

(***************************************************************************)
(* Fetch client: constants                                                 *)
(***************************************************************************)
Domains == {"www.thestar.com", "example.com"}

RATE_LIMITS(domain) ==
  IF domain = "www.thestar.com"
    THEN [delay |-> 5, maxRetries |-> 5, retryDelay |-> 5]
    ELSE [delay |-> 2, maxRetries |-> 3, retryDelay |-> 2]

getRateLimitSettings(domain) == RATE_LIMITS(domain)

Calls == 1..NumCalls

\* what one network attempt can end in: a 2xx response, HTTP 429, HTTP 403,
\* the 60 s timeout (ECONNABORTED), or any other error
Outcomes == {"ok", "429", "403", "timeout", "other"}

VARIABLES
  now,              \* Date.now()
  lastRequestTime,  \* Map domain -> time of the last recorded request
  stamps,           \* history: per domain, the times recorded by waitForRateLimit
  calls,            \* per fetchXML call: its frame (pc, attempt, lastError, ...)
  disk              \* temp files that exist in os.tmpdir()

fetchVars == <<now, lastRequestTime, stamps, calls, disk>>

VARIABLES
  store,     \* the document store's content
  cache,     \* the Map of utils/cache.js
  req,       \* the request being handled
  response,  \* what the handler sent
  served,    \* list requests handled so far
  got,       \* the last call made on the cache module directly, and its result
  written,   \* history: per key, the last direct setCache (data, time, ttl)
  acc,       \* the sparse array the interleave step fills, when it is
             \* driven directly
  handlers   \* list requests with a random sort that are in flight together

serveVars ==
  <<store, cache, req, response, served, got, written, acc, handlers>>

StartNow == RATE_LIMITS("www.thestar.com").delay

IdleCall ==
  [pc |-> "idle", domain |-> "example.com", isDownloadable |-> FALSE,
   attempt |-> 0, wakeAt |-> 0, lastError |-> "none", tmpFilename |-> <<>>,
   requests |-> 0, all429 |-> TRUE, sleeps |-> 0, lastDelay |-> 0]

\* the fetch client before any call
FetchIdle ==
  /\ now = StartNow
  /\ lastRequestTime = <<>>
  /\ stamps = [d \in Domains |-> <<>>]
  /\ calls = [c \in Calls |-> IdleCall]
  /\ disk = {}

\* a single call that starts when the process has already fetched from some
\* domain at most `delay` seconds ago (or from none)
SoloStart ==
  /\ now = StartNow
  /\ \E d \in Domains : \E ago \in 0..RATE_LIMITS(d).delay :
        \/ /\ lastRequestTime = <<>>
           /\ stamps = [e \in Domains |-> <<>>]
        \/ /\ lastRequestTime = [e \in {d} |-> now - ago]
           /\ stamps = [e \in Domains |-> IF e = d THEN <<now - ago>> ELSE <<>>]
  /\ calls = [c \in Calls |-> IdleCall]
  /\ disk = {}

Max(a, b) == IF a >= b THEN a ELSE b
Min(a, b) == IF a <= b THEN a ELSE b

\* a limiter with one window for all origins: the latest request to any
LastRequest_AnyOrigin(domain) ==
  IF \E d \in Domains : d \in DOMAIN lastRequestTime
    THEN LET d == CHOOSE e \in DOMAIN lastRequestTime :
                    \A f \in DOMAIN lastRequestTime :
                       lastRequestTime[f] <= lastRequestTime[e]
         IN lastRequestTime[d]
    ELSE 0

\* lastRequestTime.get(domain) || 0
LastRequest(domain) ==
  IF domain \in DOMAIN lastRequestTime THEN lastRequestTime[domain] ELSE 0

\* a record that only creates the entry and never refreshes it
RecordRequest_FirstOnly(domain) ==
  /\ lastRequestTime' =
       [d \in (DOMAIN lastRequestTime) \cup {domain} |->
          IF d \in DOMAIN lastRequestTime THEN lastRequestTime[d] ELSE now]
  /\ stamps' = [stamps EXCEPT ![domain] =
                  IF Len(@) < 2 THEN Append(@, now) ELSE <<@[2], now>>]

\* lastRequestTime.set(domain, Date.now())
RecordRequest(domain) ==
  /\ lastRequestTime' =
       [d \in (DOMAIN lastRequestTime) \cup {domain} |->
          IF d = domain THEN now ELSE lastRequestTime[d]]
  /\ stamps' = [stamps EXCEPT ![domain] =
                  IF Len(@) < 2 THEN Append(@, now) ELSE <<@[2], now>>]

\* waitForRateLimit up to its first suspension: the read of the map, the
\* computation of timeToWait and, when there is nothing to wait for, the
\* record, all run without yielding
waitForRateLimit(c, frame) ==
  LET settings == getRateLimitSettings(frame.domain)
      lastRequest == LastRequest(frame.domain)
      timeToWait == Max(0, lastRequest + settings.delay - now)
  IN IF timeToWait > 0
       THEN /\ calls' = [calls EXCEPT ![c] =
                 [frame EXCEPT !.pc = "rateWait", !.wakeAt = now + timeToWait]]
            /\ UNCHANGED <<lastRequestTime, stamps>>
       ELSE /\ calls' = [calls EXCEPT ![c] =
                 [frame EXCEPT !.pc = "request", !.requests = @ + 1]]
            /\ RecordRequest(frame.domain)

\* fetchXML(location, options): the call runs synchronously into the first
\* iteration of the loop and into waitForRateLimit
StartFetch(c) ==
  /\ calls[c].pc = "idle"
  /\ \E d \in Domains, dl \in BOOLEAN :
       waitForRateLimit(c, [calls[c] EXCEPT !.domain = d,
                              !.isDownloadable = dl, !.attempt = 1])
  /\ UNCHANGED <<now, disk>>
  /\ UNCHANGED serveVars

\* the timer of `await wait(timeToWait)` fires; the record follows
RateLimitWake(c) ==
  /\ calls[c].pc = "rateWait"
  /\ now >= calls[c].wakeAt
  /\ calls' = [calls EXCEPT ![c].pc = "request", ![c].requests = @ + 1]
  /\ RecordRequest(calls[c].domain)
  /\ UNCHANGED <<now, disk>>
  /\ UNCHANGED serveVars

\* a catch block that forgets to scale the 429 delay and to double the 403 one
RetryDelayFor_Flat(settings, attempt, outcome) == settings.retryDelay

\* delay computed in the catch block
RetryDelayFor(settings, attempt, outcome) ==
  IF outcome = "429" THEN settings.retryDelay * attempt
  ELSE IF outcome = "403" THEN settings.retryDelay * 2
  ELSE settings.retryDelay

\* a loop test that is off by one
LoopContinues_OffByOne(attempt, settings) == attempt <= settings.maxRetries + 1

\* the loop test `attempt <= settings.maxRetries`
LoopContinues(attempt, settings) == attempt <= settings.maxRetries

\* a catch block that never sleeps before the next attempt
SleepsBeforeRetry_Never(attempt, settings) == FALSE

\* a catch block that sleeps after the last attempt too
SleepsBeforeRetry_Always(attempt, settings) == TRUE

\* the test `attempt < settings.maxRetries` that guards `await wait(delay)`
SleepsBeforeRetry(attempt, settings) == attempt < settings.maxRetries

\* a loop exit that neither returns nor throws
NextIteration_NoThrow(c, frame) ==
  LET settings == getRateLimitSettings(frame.domain)
      next == [frame EXCEPT !.attempt = @ + 1]
  IN IF LoopContinues(next.attempt, settings)
       THEN waitForRateLimit(c, next)
       ELSE /\ calls' = [calls EXCEPT ![c] = [next EXCEPT !.pc = "exhausted"]]
            /\ UNCHANGED <<lastRequestTime, stamps>>

\* attempt++, the loop test, and either the next iteration (which begins with
\* waitForRateLimit) or the throw after the loop
NextIteration(c, frame) ==
  LET settings == getRateLimitSettings(frame.domain)
      next == [frame EXCEPT !.attempt = @ + 1]
  IN IF LoopContinues(next.attempt, settings)
       THEN waitForRateLimit(c, next)
       ELSE /\ calls' = [calls EXCEPT ![c] = [next EXCEPT !.pc = "failed"]]
            /\ UNCHANGED <<lastRequestTime, stamps>>

\* the catch block of one attempt
Catch(c, outcome) ==
  LET frame == calls[c]
      settings == getRateLimitSettings(frame.domain)
      delay == RetryDelayFor(settings, frame.attempt, outcome)
      f1 == [frame EXCEPT !.lastError = outcome,
                          !.all429 = @ /\ outcome = "429"]
  IN IF SleepsBeforeRetry(frame.attempt, settings)
       THEN /\ calls' = [calls EXCEPT ![c] =
                 [f1 EXCEPT !.pc = "retryWait", !.wakeAt = now + delay,
                            !.sleeps = @ + 1, !.lastDelay = delay]]
            /\ UNCHANGED <<lastRequestTime, stamps>>
       ELSE NextIteration(c, f1)

\* axios.get settles
Respond(c) ==
  /\ calls[c].pc = "request"
  /\ \E outcome \in Outcomes :
       IF outcome = "ok"
         THEN /\ IF calls[c].isDownloadable
                   THEN calls' = [calls EXCEPT ![c].pc = "writeFile",
                                    ![c].all429 = FALSE,
                                    ![c].tmpFilename = <<c, calls[c].attempt>>]
                   ELSE calls' = [calls EXCEPT ![c].pc = "done",
                                    ![c].all429 = FALSE]
              /\ UNCHANGED <<lastRequestTime, stamps>>
         ELSE Catch(c, outcome)
  /\ UNCHANGED <<now, disk>>
  /\ UNCHANGED serveVars

\* fs.writeFile(tmpFilename, response.data): on failure the file may or may
\* not have been created
WriteFile(c) ==
  /\ calls[c].pc = "writeFile"
  /\ \/ /\ disk' = disk \cup {calls[c].tmpFilename}
        /\ calls' = [calls EXCEPT ![c].pc = "readFile"]
        /\ UNCHANGED <<lastRequestTime, stamps>>
     \/ /\ disk' \in {disk, disk \cup {calls[c].tmpFilename}}
        /\ Catch(c, "other")
  /\ UNCHANGED now
  /\ UNCHANGED serveVars

\* fs.readFile(tmpFilename, 'utf8')
ReadFile(c) ==
  /\ calls[c].pc = "readFile"
  /\ \/ /\ calls' = [calls EXCEPT ![c].pc = "unlink"]
        /\ UNCHANGED <<lastRequestTime, stamps>>
     \/ Catch(c, "other")
  /\ UNCHANGED <<now, disk>>
  /\ UNCHANGED serveVars

\* fs.unlink(tmpFilename), then return content
Unlink(c) ==
  /\ calls[c].pc = "unlink"
  /\ \/ /\ disk' = disk \ {calls[c].tmpFilename}
        /\ calls' = [calls EXCEPT ![c].pc = "done"]
        /\ UNCHANGED <<lastRequestTime, stamps>>
     \/ /\ disk' = disk
        /\ Catch(c, "other")
  /\ UNCHANGED now
  /\ UNCHANGED serveVars

\* the timer of `await wait(delay)` fires and the loop goes round
RetryWake(c) ==
  /\ calls[c].pc = "retryWait"
  /\ now >= calls[c].wakeAt
  /\ NextIteration(c, calls[c])
  /\ UNCHANGED <<now, disk>>
  /\ UNCHANGED serveVars

\* the clock advances
Advance(limit) ==
  /\ now < StartNow + limit
  /\ now' = now + 1
  /\ UNCHANGED <<lastRequestTime, stamps, calls, disk>>
  /\ UNCHANGED serveVars

Tick == Advance(MaxElapsed)

\* with a single call the clock only matters while the call sleeps
TickSolo ==
  /\ calls[1].pc \in {"rateWait", "retryWait"}
  /\ now <= calls[1].wakeAt
  /\ now' = now + 1
  /\ UNCHANGED <<lastRequestTime, stamps, calls, disk>>
  /\ UNCHANGED serveVars

FetchNext ==
  \/ \E c \in Calls : StartFetch(c)
  \/ \E c \in Calls : RateLimitWake(c)
  \/ \E c \in Calls : Respond(c)
  \/ \E c \in Calls : WriteFile(c)
  \/ \E c \in Calls : ReadFile(c)
  \/ \E c \in Calls : Unlink(c)
  \/ \E c \in Calls : RetryWake(c)
  \/ Tick

\* one fetchXML call on its own
SoloNext ==
  \/ StartFetch(1)
  \/ RateLimitWake(1)
  \/ Respond(1)
  \/ WriteFile(1)
  \/ ReadFile(1)
  \/ Unlink(1)
  \/ RetryWake(1)
  \/ TickSolo


(***************************************************************************)
(* Document store (external collaborator), as the routes query it          *)
(***************************************************************************)
NoValue == ""            \* an absent (or empty, hence falsy) query parameter

MaxWorldSources == 8     \* sources of category world a store may hold
MaxSources == 3          \* sources of any other category a store may hold
PerSource == 6           \* articles per source in an evenly filled store
HeavyCount == 10         \* articles of the first source in a skewed store
MaxPage == 3             \* pages requested
MaxLimit == 4            \* small limits requested (besides 10, 25 and 100)

Day == 86400             \* 24 * 60 * 60 seconds
StaleDays == 30          \* age of the articles of a stale source

StoreCategories == {"world", "science", "technology", "business", "tech"}

\* the schema requires neither `source` nor `pubDate`: a document may hold a
\* null source, and may have no pubDate (which sorts below every date)
NullSource == "<null>"
NoDate == 0 - 101 * Day
OrphanKinds == {"none", "nullSource", "noPubDate"}

\* source identifiers, in the order the store holds them; a feed may carry
\* any identifier, also the word the cache key uses for "no source filter"
SourceNames(category) ==
  IF category = "world"
    THEN <<"w1", "w2", "w3", "bbc", "cbc", "reuters", "japantimes", "w4",
           "w5", "w6">>
    ELSE <<"x", "y", "all", "u", "v">>

\* a store holds n sources of one category; the last `stale` of them have
\* only old articles; it may hold one more document that lacks a field
Stores ==
  { [category |-> c, n |-> n, pattern |-> p, layout |-> l, stale |-> st,
     orphans |-> o] :
      c \in StoreCategories, n \in 0..MaxWorldSources,
      p \in {"even", "skewed"}, l \in {"sourceMajor", "rankMajor"},
      st \in 0..1, o \in OrphanKinds }

WellFormedStore(st) ==
  /\ st.n <= (IF st.category = "world" THEN MaxWorldSources ELSE MaxSources)
  /\ st.stale <= st.n
  /\ (st.stale > 0 => st.n <= MaxSources)
  /\ (st.n = 0 => st.pattern = "even" /\ st.layout = "sourceMajor")
  /\ (st.orphans # "none" =>
        /\ st.n \in 1..MaxSources
        /\ st.pattern = "even"
        /\ st.layout = "sourceMajor"
        /\ st.stale = 0)

ArticleCount(st, j) ==
  IF st.pattern = "even" THEN PerSource ELSE IF j = 1 THEN HeavyCount ELSE 1

\* Article documents of source j, most recent first
ArticlesOfSource(st, j) ==
  LET base == IF j > st.n - st.stale THEN StartNow - StaleDays * Day
                                     ELSE StartNow
      offset(k) == IF st.layout = "sourceMajor"
                     THEN (j - 1) * (HeavyCount + PerSource) + k
                     ELSE (k - 1) * st.n + j
  IN [k \in 1..ArticleCount(st, j) |->
        [source |-> SourceNames(st.category)[j],
         category |-> st.category,
         pubDate |-> base - offset(k)]]

RECURSIVE SeqToSet(_)
SeqToSet(seq) ==
  IF seq = <<>> THEN {} ELSE {Head(seq)} \cup SeqToSet(Tail(seq))

\* the document that lacks a field: a recent one with a null source, or one
\* of the first source without a pubDate
Orphans(st) ==
  CASE st.orphans = "nullSource" ->
         {[source |-> NullSource, category |-> st.category,
           pubDate |-> StartNow - 1]}
    [] st.orphans = "noPubDate" ->
         {[source |-> SourceNames(st.category)[1], category |-> st.category,
           pubDate |-> NoDate]}
    [] OTHER -> {}

AllArticles(st) ==
  UNION { SeqToSet(ArticlesOfSource(st, j)) : j \in 1..st.n } \cup Orphans(st)

\* pubDate filter of a query that has none
Ever == 0 - 100 * Day

\* the filter document: a conjunction over source, category and pubDate; a
\* document without a pubDate matches no $gte condition
Matches(a, query) ==
  /\ (query.source # NoValue => a.source = query.source)
  /\ (query.category # NoValue => a.category = query.category)
  /\ (query.since # Ever => a.pubDate # NoDate /\ a.pubDate >= query.since)

Matching(st, query) == { a \in AllArticles(st) : Matches(a, query) }

\* Article.countDocuments(query)
countDocuments(st, query) == Cardinality(Matching(st, query))

\* .sort({ pubDate: -1 }) over a result set
RECURSIVE SortedNewestFirst(_)
SortedNewestFirst(S) ==
  IF S = {} THEN <<>>
  ELSE LET m == CHOOSE a \in S : \A b \in S : b.pubDate <= a.pubDate
       IN <<m>> \o SortedNewestFirst(S \ {m})

\* .skip(n)
Skip(seq, n) == IF n >= Len(seq) THEN <<>> ELSE SubSeq(seq, n + 1, Len(seq))

\* .limit(n): 0 means no limit, a negative n limits to |n|
Limit(seq, n) ==
  LET m == IF n < 0 THEN 0 - n ELSE n
  IN IF m = 0 \/ m >= Len(seq) THEN seq ELSE SubSeq(seq, 1, m)

\* Article.find(query).sort({ pubDate: -1 }).skip(skip).limit(limit)
find(st, query, skip, limit) ==
  Limit(Skip(SortedNewestFirst(Matching(st, query)), skip), limit)

\* the set Article.distinct('source', query) reports
distinct(st, query) == { a.source : a \in Matching(st, query) }

Rotate(seq, r) ==
  [i \in 1..Len(seq) |-> seq[((i - 1 + r) % Len(seq)) + 1]]

Reverse(seq) == [i \in 1..Len(seq) |-> seq[Len(seq) + 1 - i]]

\* the orders in which the store may report a set of distinct values: the
\* stored order, rotated and possibly reversed
DistinctOrders(st, S) ==
  LET stored == SelectSeq(SourceNames(st.category) \o <<NullSource>>,
                          LAMBDA x : x \in S)
  IN IF stored = <<>> THEN {<<>>}
     ELSE UNION { {Rotate(stored, r), Reverse(Rotate(stored, r))} :
                    r \in 0..(Len(stored) - 1) }

(***************************************************************************)
(* Balanced selection: calculateArticlesPerSource, getBalancedArticles     *)
(***************************************************************************)
\* Math.ceil(a / b) for b > 0
CeilDiv(a, b) == 0 - ((0 - a) \div b)

\* Math.max(2, Math.ceil(limit / Math.min(sourceCount, 20))); the quotient
\* is Infinity when sourceCount is 0
BaseCount(sourceCount, limit) ==
  IF sourceCount = 0
    THEN (IF limit > 0 THEN 1000 ELSE 2)
    ELSE Max(2, CeilDiv(limit, Min(sourceCount, 20)))

\* a quota that treats every category like science
calculateArticlesPerSource_AllScience(sourceCount, category, limit) ==
  Min(6, BaseCount(sourceCount, limit) + 2)

calculateArticlesPerSource(sourceCount, category, limit) ==
  LET baseCount == BaseCount(sourceCount, limit)
  IN CASE category = "science" -> Min(6, baseCount + 2)
       [] category = "technology" -> Min(4, baseCount + 1)
       [] category \in {"entertainment", "sports"} -> Min(3, baseCount)
       [] category = "world" -> Min(2, baseCount)
       [] category = "business" ->
            IF sourceCount < 15 THEN Min(4, baseCount + 1)
                                ELSE Min(3, baseCount)
       [] OTHER -> Min(3, baseCount)

\* query.category === 'science' ? 14 : 7
timeWindow(query) == IF query.category = "science" THEN 14 ELSE 7

\* Math.min(25, Math.ceil(distinctSources.length / 2))
sourcesPerPage(distinctSources) == Min(25, CeilDiv(Len(distinctSources), 2))

\* a negative overlap: consecutive windows leave a gap
overlapSources_Gap(distinctSources) == 0 - 1

\* Math.floor(sourcesPerPage / 4)
overlapSources(distinctSources) == sourcesPerPage(distinctSources) \div 4

\* Array.prototype.slice(0, n) for n >= 0
SliceTo(seq, n) == IF n >= Len(seq) THEN seq ELSE SubSeq(seq, 1, n)

\* the region table, in the order Object.values lists it
regions ==
  << <<"channelnewsasia", "japantimes", "thehindubusinessline">>,
     <<"bbc", "france24", "euronews", "express">>,
     <<"cbc", "cbsnews", "nypost">>,
     <<"reuters", "wsj", "rt">> >>

RECURSIVE Flat(_)
Flat(seqs) == IF seqs = <<>> THEN <<>> ELSE Head(seqs) \o Flat(Tail(seqs))

\* [...new Set(seq)]: first occurrences, in order
RECURSIVE Dedupe(_)
Dedupe(seq) ==
  IF seq = <<>> THEN <<>>
  ELSE LET front == Dedupe(SubSeq(seq, 1, Len(seq) - 1))
           last == seq[Len(seq)]
       IN IF last \in SeqToSet(front) THEN front ELSE Append(front, last)

\* the sliding window of sources for a page
SlidingWindow(distinctSources, page) ==
  LET perPage == sourcesPerPage(distinctSources)
      startIdx == ((page - 1) * (perPage - overlapSources(distinctSources)))
                    % Len(distinctSources)
  IN SliceTo(Rotate(distinctSources, startIdx), perPage)

\* the world branch: add sources of the regions the window lacks
EnsureRegions(selected, perPage) ==
  LET regionalSources == SeqToSet(Flat(regions))
      availableRegionalSources ==
        SelectSeq(selected, LAMBDA x : x \in regionalSources)
      missingRegions ==
        Flat(SelectSeq(regions,
               LAMBDA region : SeqToSet(region) \cap SeqToSet(selected) = {}))
      additionalSources == SliceTo(missingRegions, perPage - Len(selected))
  IN IF Len(availableRegionalSources) < Len(regions)
       THEN Dedupe(selected \o additionalSources)
       ELSE selected

selectedSources(distinctSources, query, page) ==
  LET perPage == sourcesPerPage(distinctSources)
  IN IF Len(distinctSources) <= perPage
       THEN distinctSources
       ELSE LET window == SlidingWindow(distinctSources, page)
            IN IF query.category = "world"
                 THEN EnsureRegions(window, perPage)
                 ELSE window

\* .slice(0, limit), also for a negative limit
Slice0(seq, limit) ==
  IF limit >= 0 THEN SliceTo(seq, limit)
  ELSE SliceTo(seq, Max(0, Len(seq) + limit))

\* .sort((a, b) => new Date(b.pubDate) - new Date(a.pubDate)): stable
RECURSIVE SortByPubDateDesc(_)
SortByPubDateDesc(seq) ==
  IF seq = <<>> THEN <<>>
  ELSE LET rest == SortByPubDateDesc(Tail(seq))
           a == Head(seq)
           before == SelectSeq(rest, LAMBDA b : b.pubDate > a.pubDate)
           after == SelectSeq(rest, LAMBDA b : b.pubDate <= a.pubDate)
       IN before \o <<a>> \o after

\* a position that makes each source's articles contiguous
Position_SourceMajor(articleIndex, sourceIndex, selectedCount) ==
  articleIndex + sourceIndex * selectedCount

\* a stride one short of the number of selected sources
Position_ShortStride(articleIndex, sourceIndex, selectedCount) ==
  articleIndex * (selectedCount - 1) + sourceIndex

\* position = articleIndex * selectedSources.length + sourceIndex, where
\* sourceIndex counts the non-empty result lists only
Position(articleIndex, sourceIndex, selectedCount) ==
  articleIndex * selectedCount + sourceIndex

\* .filter(articles => articles.length > 0)
NonEmptyLists(sourceArticles) == SelectSeq(sourceArticles, LAMBDA l : Len(l) > 0)

\* the reduce: the sparse array acc, as a function from the positions written
\* (0-based) to the article each holds; a later write to a position replaces
\* an earlier one
Accumulate(sourceArticles, selectedCount) ==
  LET lists == NonEmptyLists(sourceArticles)
      slots == { <<j, i>> \in (1..Len(lists)) \X (1..(HeavyCount + PerSource)) :
                   i <= Len(lists[j]) }
      pos(slot) == Position(slot[2] - 1, slot[1] - 1, selectedCount)
      used == { pos(slot) : slot \in slots }
      winner(p) == CHOOSE slot \in slots :
                     /\ pos(slot) = p
                     /\ \A o \in slots : pos(o) = p =>
                          (o[1] < slot[1] \/ (o[1] = slot[1] /\ o[2] <= slot[2]))
  IN [p \in used |-> lists[winner(p)[1]][winner(p)[2]]]

\* .filter(Boolean): the holes are dropped, the rest is read in index order
RECURSIVE ReadInOrder(_, _)
ReadInOrder(arr, P) ==
  IF P = {} THEN <<>>
  ELSE LET p == CHOOSE q \in P : \A r \in P : q <= r
       IN <<arr[p]>> \o ReadInOrder(arr, P \ {p})

\* the filter / reduce / filter(Boolean) chain
Interleave(sourceArticles, selectedCount) ==
  LET arr == Accumulate(sourceArticles, selectedCount)
  IN ReadInOrder(arr, DOMAIN arr)

\* a combine step that truncates before it sorts
Combine_TruncateFirst(sourceArticles, selectedCount, limit) ==
  SortByPubDateDesc(Slice0(Interleave(sourceArticles, selectedCount), limit))

\* everything getBalancedArticles does after Promise.all
Combine(sourceArticles, selectedCount, limit) ==
  Slice0(SortByPubDateDesc(Interleave(sourceArticles, selectedCount)), limit)

(***************************************************************************)
(* Ephemeral cache (utils/cache.js)                                        *)
(***************************************************************************)
TTL == 300               \* setCache(cacheKey, articles, 300)

\* a setCache that leaves the expiry of an existing entry as it was
setCache_KeepExpiry(map, key, data, ttlSeconds) ==
  [k \in (DOMAIN map) \cup {key} |->
     IF k = key
       THEN [data |-> data,
             expiry |-> IF key \in DOMAIN map THEN map[key].expiry
                        ELSE now + ttlSeconds]
       ELSE map[k]]

\* the Map after setCache(key, data, ttlSeconds)
setCache(map, key, data, ttlSeconds) ==
  [k \in (DOMAIN map) \cup {key} |->
     IF k = key THEN [data |-> data, expiry |-> now + ttlSeconds]
                ELSE map[k]]

\* a getCache that never looks at the expiry
CacheHit_Stale(map, key) == key \in DOMAIN map

\* getCache(key) returns data (not null)
CacheHit(map, key) == key \in DOMAIN map /\ ~ (now > map[key].expiry)

\* a getCache that sweeps every expired entry out of the Map
AfterGetCache_Sweep(map, key) ==
  [k \in { e \in DOMAIN map : ~ (now > map[e].expiry) } |-> map[k]]

\* the Map after getCache(key): an expired entry is deleted
AfterGetCache(map, key) ==
  IF key \in DOMAIN map /\ now > map[key].expiry
    THEN [k \in (DOMAIN map) \ {key} |-> map[k]]
    ELSE map

(***************************************************************************)
(* Routes: GET / (list) and GET /category/:category                        *)
(***************************************************************************)
MaxRequests == 2         \* list requests served in one behaviour
MaxServeElapsed == 302   \* seconds of clock the list route explores

Sorts == {"newest", "popular", "random", "semiRandom", "bogus"}

\* a raw query value: absent, not a number, or the text of an integer
Absent == [kind |-> "absent", n |-> 0]
NotANumber == [kind |-> "nan", n |-> 0]
Num(n) == [kind |-> "num", n |-> n]

RawPages ==
  {Absent, NotANumber, Num(0 - 1), Num(0)} \cup {Num(n) : n \in 2..MaxPage}
RawLimits == {Absent} \cup {Num(n) : n \in ((0 - 1)..MaxLimit) \cup {500}}

\* the raw values the list route is explored on
ListRawPages == {Num(0), Num(2)}
ListRawLimits == {Num(2), Num(500)}

\* Number(raw) || fallback, and parseInt(raw) || fallback
OrDefault(raw, fallback) ==
  IF raw.kind = "num" /\ raw.n # 0 THEN raw.n ELSE fallback

\* Math.max(Number(page) || 1, 1)
parsedPage(raw) == Max(OrDefault(raw, 1), 1)

\* a limit that is parsed but never capped
parsedLimit_Uncapped(raw) == OrDefault(raw, 25)

\* Math.min(Number(limit) || 25, 100)
parsedLimit(raw) == Min(OrDefault(raw, 25), 100)

\* `news:${sort}:${source || 'all'}:${category || 'all'}:${parsedPage}`
cacheKey(sort, source, category, page) ==
  "news:" \o sort \o ":" \o (IF source = NoValue THEN "all" ELSE source)
    \o ":" \o (IF category = NoValue THEN "all" ELSE category)
    \o ":" \o ToString(page)

\* no direct call on the cache module yet
NoCall == [op |-> "none", key |-> "", hit |-> FALSE, data |-> <<>>,
           ttl |-> 0, prior |-> "none", priorData |-> <<>>]

NoResponse == [status |-> 0, page |-> 0, limit |-> 0, total |-> 0,
               articles |-> <<>>, error |-> ""]

IdleReq ==
  [route |-> "none", pc |-> "idle", sort |-> "newest", source |-> NoValue,
   category |-> NoValue, rawPage |-> Absent, rawLimit |-> Absent,
   page |-> 1, limit |-> 25, total |-> 0, since |-> Ever,
   distinctSources |-> <<>>, selectedSources |-> <<>>,
   articlesPerSource |-> 0, sourceArticles |-> <<>>, pending |-> {},
   queries |-> <<>>, balanced |-> FALSE, failed |-> {}, seen |-> {}]

ServeIdle ==
  /\ cache = <<>>
  /\ req = IdleReq
  /\ response = NoResponse
  /\ served = 0
  /\ got = NoCall
  /\ written = <<>>
  /\ acc = <<>>
  /\ handlers = <<>>

\* the filter document the handler builds
Query(r) == [source |-> r.source, category |-> r.category, since |-> Ever]

\* res.json(...) / res.status(...).json(...)
Send(r, status, articles, error) ==
  /\ response' = [status |-> status, page |-> r.page, limit |-> r.limit,
                   total |-> r.total, articles |-> articles, error |-> error]
  /\ req' = [r EXCEPT !.pc = "done"]

\* router.get('/'): parse the query string and issue countDocuments
ListRequest ==
  /\ req.pc = "idle"
  /\ served < MaxRequests
  /\ \E sort \in Sorts, source \in {NoValue, "x", "all"},
        category \in {NoValue, store.category},
        rawPage \in ListRawPages, rawLimit \in ListRawLimits :
       req' = [IdleReq EXCEPT !.route = "list", !.pc = "count",
                 !.sort = sort, !.source = source, !.category = category,
                 !.rawPage = rawPage, !.rawLimit = rawLimit,
                 !.page = parsedPage(rawPage), !.limit = parsedLimit(rawLimit),
                 !.queries = <<"countDocuments">>]
  /\ served' = served + 1
  /\ response' = NoResponse
  /\ UNCHANGED <<handlers, acc, got, written, store, cache, now, lastRequestTime, stamps, calls, disk>>

\* router.get('/category/:category'): parseInt the query string and issue
\* countDocuments
CategoryRequest ==
  /\ req.pc = "idle"
  /\ \E category \in StoreCategories, rawPage \in RawPages,
        rawLimit \in RawLimits :
       req' = [IdleReq EXCEPT !.route = "category", !.pc = "count",
                 !.category = category,
                 !.rawPage = rawPage, !.rawLimit = rawLimit,
                 !.page = OrDefault(rawPage, 1),
                 !.limit = OrDefault(rawLimit, 10),
                 !.queries = <<"countDocuments">>]
  /\ response' = NoResponse
  /\ UNCHANGED <<handlers, acc, got, written, store, cache, served, now, lastRequestTime, stamps, calls,
                 disk>>

\* getBalancedArticles is entered: Article.distinct is issued
EnterBalanced(r) ==
  req' = [r EXCEPT !.pc = "distinct", !.balanced = TRUE,
            !.since = now - timeWindow(Query(r)) * Day,
            !.queries = Append(@, "distinct")]

\* countDocuments resolves; the handler runs on to its next await
CountReturn ==
  /\ req.pc = "count"
  /\ LET r == [req EXCEPT !.total = countDocuments(store, Query(req))]
         key == cacheKey(r.sort, r.source, r.category, r.page)
     IN IF r.route = "category"
          THEN EnterBalanced(r) /\ UNCHANGED <<cache, response>>
        ELSE IF r.total = 0
          THEN Send(r, 200, <<>>, "") /\ UNCHANGED cache
        ELSE IF CacheHit(cache, key)
          THEN Send(r, 200, cache[key].data, "") /\ UNCHANGED cache
        ELSE /\ cache' = AfterGetCache(cache, key)
             /\ CASE r.sort = "newest" /\ r.source # NoValue ->
                       /\ req' = [r EXCEPT !.pc = "find",
                                     !.queries = Append(@, "find")]
                       /\ UNCHANGED response
                  [] r.sort = "newest" /\ r.source = NoValue ->
                       EnterBalanced(r) /\ UNCHANGED response
                  [] r.sort = "popular" ->
                       /\ req' = [r EXCEPT !.pc = "find",
                                     !.queries = Append(@, "find")]
                       /\ UNCHANGED response
                  [] r.sort = "random" ->
                       /\ req' = [r EXCEPT !.pc = "sample",
                                     !.queries = Append(@, "distinct")]
                       /\ UNCHANGED response
                  [] r.sort = "semiRandom" ->
                       /\ req' = [r EXCEPT !.pc = "sample",
                                     !.since = now - 3 * Day,
                                     !.queries = Append(@, "distinct")]
                       /\ UNCHANGED response
                  [] OTHER -> Send(r, 400, <<>>, "Invalid sort method: " \o r.sort)
  /\ UNCHANGED <<handlers, acc, got, written, store, served, now, lastRequestTime, stamps, calls, disk>>

\* the paged find of newest-with-source and of popular resolves; a negative
\* skip is rejected by the store.  No document has a `views` field, so the
\* popular order is the store's natural order (either direction here)
FindReturn ==
  /\ req.pc = "find"
  /\ LET skip == (req.page - 1) * req.limit
         newest == find(store, Query(req), skip, req.limit)
         natural == Limit(Skip(Reverse(SortedNewestFirst(
                      Matching(store, Query(req)))), skip), req.limit)
     IN IF skip < 0
          THEN Send(req, 500, <<>>, "Failed to fetch articles")
          ELSE \E articles \in (IF req.sort = "popular"
                                   THEN {newest, natural} ELSE {newest}) :
                 Send(req, 200, articles, "")
  /\ UNCHANGED <<handlers, acc, got, written, store, cache, served, now, lastRequestTime, stamps, calls,
                 disk>>

\* a list route that forgets to memoize the balanced page
ReturnBalanced_NoStore(r, articles) ==
  /\ UNCHANGED cache
  /\ Send(r, 200, articles, "")

\* getBalancedArticles returns to the route
ReturnBalanced(r, articles) ==
  IF r.route = "list"
    THEN /\ cache' = setCache(cache, cacheKey(r.sort, r.source, r.category,
                                                r.page), articles, TTL)
         /\ Send(r, 200, articles, "")
    ELSE /\ UNCHANGED cache
         /\ Send(r, 200, articles, "")

\* Article.distinct resolves: the window is chosen, the quota computed and
\* one find per selected source issued
DistinctReturn ==
  /\ req.pc = "distinct"
  /\ LET q == [Query(req) EXCEPT !.since = req.since]
     IN \E order \in DistinctOrders(store, distinct(store, q)) :
          LET selected == selectedSources(order, q, req.page)
              quota == calculateArticlesPerSource(Len(selected), q.category,
                                                  req.limit)
              r == [req EXCEPT !.distinctSources = order,
                      !.selectedSources = selected,
                      !.articlesPerSource = quota,
                      !.sourceArticles = [j \in 1..Len(selected) |-> <<>>],
                      !.pending = 1..Len(selected),
                      !.queries = @ \o [j \in 1..Len(selected) |-> "find"]]
          IN IF selected = <<>>
               THEN ReturnBalanced(r, Combine(<<>>, 0, req.limit))
               ELSE /\ req' = [r EXCEPT !.pc = "subqueries"]
                    /\ UNCHANGED <<cache, response>>
  /\ UNCHANGED <<handlers, acc, got, written, store, served, now, lastRequestTime, stamps, calls, disk>>

\* what Promise.all does when the sub-query of one source rejects: the
\* await throws, both catch blocks run and the route answers 500
SubqueryRejected(r) ==
  /\ Send(r, 500, <<>>, "Failed to fetch articles")
  /\ UNCHANGED cache

\* the sub-query of selected source j settles; when it is the last one,
\* Promise.all resolves and the lists are combined
SubqueryReturn ==
  /\ req.pc = "subqueries"
  /\ \E j \in req.pending :
       \/ LET q == [Query(req) EXCEPT !.source = req.selectedSources[j],
                                      !.since = req.since]
              r == [req EXCEPT
                      !.sourceArticles[j] =
                         find(store, q, 0, req.articlesPerSource),
                      !.pending = @ \ {j}]
          IN IF r.pending = {}
               THEN ReturnBalanced(r, Combine(r.sourceArticles,
                                              Len(r.selectedSources), r.limit))
               ELSE /\ req' = r
                    /\ UNCHANGED <<cache, response>>
       \/ SubqueryRejected([req EXCEPT !.failed = @ \cup {j},
                                       !.pending = @ \ {j}])
  /\ UNCHANGED <<handlers, acc, got, written, store, served, now, lastRequestTime, stamps, calls, disk>>

\* _.sampleSize(distinctSources, size): any `size` of them
sampleSize(S, size) == { T \in SUBSET S : Cardinality(T) = size }

\* _.shuffle(articles): the list as it is, rotated by one, or reversed
shuffle(seq) ==
  IF seq = <<>> THEN {<<>>}
  ELSE {seq, Rotate(seq, 1), Reverse(seq)}

\* random / semiRandom: Article.distinct resolves, sources are sampled and
\* the find over them is issued
SampleDistinctReturn ==
  /\ req.pc = "sample"
  /\ LET q == [Query(req) EXCEPT !.since = req.since]
         sources == distinct(store, q)
         size == Min(IF req.sort = "random" THEN 10 ELSE 15,
                     Cardinality(sources))
     IN \E chosen \in sampleSize(sources, size) :
          req' = [req EXCEPT !.pc = "sampleFind",
                    !.distinctSources =
                       SelectSeq(SourceNames(store.category),
                                 LAMBDA x : x \in chosen),
                    !.queries = Append(@, "find")]
  /\ UNCHANGED <<handlers, acc, got, written, store, cache, response, served, now, lastRequestTime,
                 stamps, calls, disk>>

\* random / semiRandom: the find resolves; shuffle, slice, setCache, send
SampleFindReturn ==
  /\ req.pc = "sampleFind"
  /\ LET chosen == SeqToSet(req.distinctSources)
         found == Limit(SortedNewestFirst(
                    { a \in Matching(store,
                                     [Query(req) EXCEPT !.since = req.since]) :
                        a.source \in chosen }), req.limit * 2)
     IN \E shuffled \in shuffle(found) :
          LET articles == Slice0(shuffled, req.limit)
          IN /\ cache' = setCache(cache, cacheKey(req.sort, req.source,
                                    req.category, req.page), articles, TTL)
             /\ Send(req, 200, articles, "")
  /\ UNCHANGED <<handlers, acc, got, written, store, served, now, lastRequestTime, stamps, calls, disk>>

\* the handler function returns after the response is sent
HandlerReturns ==
  /\ req.pc = "done"
  /\ req' = IdleReq
  /\ response' = NoResponse
  /\ UNCHANGED <<handlers, acc, got, written, store, cache, served, now, lastRequestTime, stamps, calls,
                 disk>>

\* time passes between two requests, a little over half a TTL at a time
ServeTick ==
  /\ req.pc = "idle"
  /\ now + TTL \div 2 + 1 <= StartNow + MaxServeElapsed
  /\ now' = now + TTL \div 2 + 1
  /\ UNCHANGED <<handlers, acc, got, written, store, cache, req, response, served, lastRequestTime,
                 stamps, calls, disk>>

\* the stores the list route is explored on
ListStores ==
  { st \in Stores : WellFormedStore(st) /\ st.category = "tech"
                      /\ st.layout = "sourceMajor" /\ st.stale = 0
                      /\ st.orphans = "none"
                      /\ \/ st.n = 0
                         \/ st.n = 2 /\ st.pattern = "skewed"
                         \/ st.n = 3 /\ st.pattern = "even" }

ListInit ==
  /\ FetchIdle
  /\ ServeIdle
  /\ store \in ListStores

ListNext ==
  \/ ListRequest
  \/ CountReturn
  \/ FindReturn
  \/ DistinctReturn
  \/ SubqueryReturn
  \/ SampleDistinctReturn
  \/ SampleFindReturn
  \/ HandlerReturns
  \/ ServeTick

CategoryInit ==
  /\ FetchIdle
  /\ ServeIdle
  /\ store \in { st \in Stores : WellFormedStore(st) }

CategoryNext ==
  \/ CategoryRequest
  \/ CountReturn
  \/ DistinctReturn
  \/ SubqueryReturn
  \/ HandlerReturns

\* no request is served while the fetch client or the cache is explored
ServeOff == ServeIdle /\ store = CHOOSE st \in Stores : st.n = 0

(***************************************************************************)
(* The cache module driven directly: setCache, getCache, the clock         *)
(***************************************************************************)
MaxTtl == 2              \* largest ttlSeconds passed by a direct call
MaxCacheElapsed == 4     \* seconds of clock the direct calls are explored on

CacheKeys == {"k1", "k2"}
CacheValues == {<<>>, <<"v1">>, <<"v2">>}

\* what the Map holds under key: nothing, a live entry or an expired one
EntryState(map, key) ==
  IF key \notin DOMAIN map THEN "none"
  ELSE IF now > map[key].expiry THEN "expired" ELSE "live"

\* setCache(key, data, ttlSeconds)
CacheSet ==
  /\ \E key \in CacheKeys, data \in CacheValues, ttlSeconds \in 0..MaxTtl :
       /\ cache' = setCache(cache, key, data, ttlSeconds)
       /\ got' = [op |-> "set", key |-> key, hit |-> FALSE, data |-> data,
                   ttl |-> ttlSeconds, prior |-> EntryState(cache, key),
                   priorData |-> IF key \in DOMAIN cache THEN cache[key].data
                                 ELSE <<>>]
       /\ written' = [k \in (DOMAIN written) \cup {key} |->
                        IF k = key
                          THEN [data |-> data, at |-> now, ttl |-> ttlSeconds]
                          ELSE written[k]]
  /\ UNCHANGED <<handlers, acc, store, req, response, served, now, lastRequestTime, stamps,
                 calls, disk>>

\* getCache(key)
CacheGet ==
  /\ \E key \in CacheKeys :
       /\ got' = [op |-> "get", key |-> key, hit |-> CacheHit(cache, key),
                   data |-> IF CacheHit(cache, key) THEN cache[key].data
                            ELSE <<>>,
                   ttl |-> 0, prior |-> EntryState(cache, key),
                   priorData |-> IF key \in DOMAIN cache THEN cache[key].data
                                 ELSE <<>>]
       /\ cache' = AfterGetCache(cache, key)
  /\ UNCHANGED <<handlers, acc, written, store, req, response, served, now, lastRequestTime,
                 stamps, calls, disk>>

\* a second passes between two direct calls
CacheTick ==
  /\ now < StartNow + MaxCacheElapsed
  /\ now' = now + 1
  /\ got' = [NoCall EXCEPT !.op = "tick"]
  /\ UNCHANGED <<handlers, acc, written, store, cache, req, response, served,
                 lastRequestTime, stamps, calls, disk>>

CacheInit == FetchIdle /\ ServeOff

CacheNext ==
  \/ CacheSet
  \/ CacheGet
  \/ CacheTick

(***************************************************************************)
(* The combine step of getBalancedArticles driven directly: the lists the  *)
(* sub-queries returned are drawn, the step is applied                     *)
(***************************************************************************)
MaxLists == 3            \* selected sources
MaxDate == 3             \* publication times 1..MaxDate
MaxListLen == 2          \* articles one sub-query returns at most
MaxCombineLimit == 3     \* largest limit passed

\* the publication times of what one sub-query can return: none, or up to
\* MaxListLen different ones
DateSets == { E \in SUBSET (1..MaxDate) : Cardinality(E) <= MaxListLen }

\* the articles of source src with these publication times, newest first
ResultList(src, D) ==
  SortedNewestFirst({ [source |-> src, category |-> "tech", pubDate |-> d] :
                        d \in D })

\* Promise.all has resolved with one list per selected source
CombineInit ==
  /\ FetchIdle
  /\ cache = <<>>
  /\ response = NoResponse
  /\ served = 0
  /\ got = NoCall
  /\ written = <<>>
  /\ acc = <<>>
  /\ handlers = <<>>
  /\ store = CHOOSE st \in Stores : st.n = 0
  /\ \E S \in 1..MaxLists, limit \in 1..MaxCombineLimit :
       LET selected == SubSeq(SourceNames("tech"), 1, S)
       IN \E dates \in [1..S -> DateSets] :
            req = [IdleReq EXCEPT !.route = "balanced", !.pc = "resolved",
                     !.category = "tech", !.limit = limit,
                     !.balanced = TRUE, !.selectedSources = selected,
                     !.sourceArticles =
                        [j \in 1..S |-> ResultList(selected[j], dates[j])]]

\* lines 431-444: interleave, sort, truncate, return
CombineStep ==
  /\ req.pc = "resolved"
  /\ acc' = Accumulate(req.sourceArticles, Len(req.selectedSources))
  /\ response' = [NoResponse EXCEPT !.status = 200, !.limit = req.limit,
                     !.articles = Combine(req.sourceArticles,
                                          Len(req.selectedSources), req.limit)]
  /\ req' = [req EXCEPT !.pc = "done"]
  /\ UNCHANGED <<handlers, got, written, store, cache, served, now, lastRequestTime,
                 stamps, calls, disk>>

CombineNext == CombineStep

(***************************************************************************)
(* GET / with sort random or semiRandom: several requests in flight.  Each *)
(* handler runs from one await to the next without yielding                *)
(***************************************************************************)
NumHandlers == 2         \* requests that can be in flight together

Handlers == 1..NumHandlers

IdleHandler ==
  [pc |-> "idle", sort |-> "random", source |-> NoValue,
   category |-> NoValue, page |-> 1, limit |-> 25, total |-> 0,
   since |-> Ever, at |-> 0, doneAt |-> 0, sampled |-> FALSE,
   chosen |-> {}, status |-> 0, articles |-> <<>>]

\* the handler of a request is entered: lines 449-467
RandomRequest(h) ==
  /\ h \notin DOMAIN handlers
  /\ \A g \in Handlers : g < h => g \in DOMAIN handlers
  /\ \E sort \in {"random", "semiRandom"}, rawPage \in ListRawPages,
        rawLimit \in ListRawLimits :
       handlers' =
         [g \in (DOMAIN handlers) \cup {h} |->
            IF g = h
              THEN [IdleHandler EXCEPT !.pc = "count", !.sort = sort,
                      !.page = parsedPage(rawPage),
                      !.limit = parsedLimit(rawLimit), !.at = now]
              ELSE handlers[g]]
  /\ UNCHANGED <<acc, got, written, store, cache, req, response, served,
                 now, lastRequestTime, stamps, calls, disk>>

\* res.json of handler h
RandomSend(h, frame, articles) ==
  handlers' = [handlers EXCEPT ![h] =
                 [frame EXCEPT !.pc = "done", !.status = 200,
                               !.articles = articles, !.doneAt = now]]

\* countDocuments resolves: lines 467-511 (random) or 467-537 (semiRandom)
RandomCountReturn(h) ==
  /\ h \in DOMAIN handlers
  /\ handlers[h].pc = "count"
  /\ LET f == [handlers[h] EXCEPT
                 !.total = countDocuments(store,
                             [source |-> handlers[h].source,
                              category |-> handlers[h].category,
                              since |-> Ever])]
         key == cacheKey(f.sort, f.source, f.category, f.page)
     IN IF f.total = 0
          THEN RandomSend(h, f, <<>>) /\ UNCHANGED cache
        ELSE IF CacheHit(cache, key)
          THEN RandomSend(h, f, cache[key].data) /\ UNCHANGED cache
        ELSE /\ cache' = AfterGetCache(cache, key)
             /\ handlers' = [handlers EXCEPT ![h] =
                   [f EXCEPT !.pc = "sample", !.sampled = TRUE,
                             !.since = IF f.sort = "random" THEN Ever
                                       ELSE now - 3 * Day]]
  /\ UNCHANGED <<acc, got, written, store, req, response, served, now,
                 lastRequestTime, stamps, calls, disk>>

\* Article.distinct resolves, sources are sampled and the find is issued
RandomDistinctReturn(h) ==
  /\ h \in DOMAIN handlers
  /\ handlers[h].pc = "sample"
  /\ LET f == handlers[h]
         sources == distinct(store, [source |-> f.source,
                                     category |-> f.category,
                                     since |-> f.since])
         size == Min(IF f.sort = "random" THEN 10 ELSE 15,
                     Cardinality(sources))
     IN \E chosen \in sampleSize(sources, size) :
          handlers' = [handlers EXCEPT ![h] =
                         [f EXCEPT !.pc = "sampleFind", !.chosen = chosen]]
  /\ UNCHANGED <<acc, got, written, store, cache, req, response, served,
                 now, lastRequestTime, stamps, calls, disk>>

\* the find resolves: shuffle, slice, setCache, res.json
RandomFindReturn(h) ==
  /\ h \in DOMAIN handlers
  /\ handlers[h].pc = "sampleFind"
  /\ LET f == handlers[h]
         found == Limit(SortedNewestFirst(
                    { a \in Matching(store, [source |-> f.source,
                                             category |-> f.category,
                                             since |-> f.since]) :
                        a.source \in f.chosen }), f.limit * 2)
     IN \E shuffled \in shuffle(found) :
          LET articles == Slice0(shuffled, f.limit)
          IN /\ cache' = setCache(cache, cacheKey(f.sort, f.source,
                                    f.category, f.page), articles, TTL)
             /\ RandomSend(h, f, articles)
  /\ UNCHANGED <<acc, got, written, store, req, response, served, now,
                 lastRequestTime, stamps, calls, disk>>

RandomInit ==
  /\ FetchIdle
  /\ ServeIdle
  /\ store \in { st \in ListStores : st.n > 0 }

RandomNext ==
  \/ \E h \in Handlers : RandomRequest(h)
  \/ \E h \in Handlers : RandomCountReturn(h)
  \/ \E h \in Handlers : RandomDistinctReturn(h)
  \/ \E h \in Handlers : RandomFindReturn(h)
  \/ ServeTick

(***************************************************************************)
(* The cache key of GET /, over pairs of requests                          *)
(***************************************************************************)
\* query-string values of `source` and `category`: absent, the word the key
\* uses for "absent", plain identifiers, and identifiers holding the
\* separator of the key
KeySources == {NoValue, "all", "x", "x:y"}
KeyCategories == {NoValue, "all", "y", "z", "y:z"}
KeySorts == {"newest", "random"}

\* lines 449-479 for request h: the query string is destructured, the page
\* parsed and the key built
KeyRequest(h) ==
  /\ h \notin DOMAIN handlers
  /\ \A g \in Handlers : g < h => g \in DOMAIN handlers
  /\ \E sort \in KeySorts, source \in KeySources, category \in KeyCategories,
        rawPage \in ListRawPages :
       handlers' =
         [g \in (DOMAIN handlers) \cup {h} |->
            IF g = h
              THEN [sort |-> sort, source |-> source, category |-> category,
                    page |-> parsedPage(rawPage),
                    key |-> cacheKey(sort, source, category,
                                     parsedPage(rawPage))]
              ELSE handlers[g]]
  /\ UNCHANGED <<acc, got, written, store, cache, req, response, served,
                 now, lastRequestTime, stamps, calls, disk>>

KeyInit ==
  /\ FetchIdle
  /\ ServeIdle
  /\ store = CHOOSE st \in ListStores : st.n = 0

KeyNext == \E h \in Handlers : KeyRequest(h)

(***************************************************************************)
(* The sliding window of getBalancedArticles, page after page              *)
(***************************************************************************)
MaxEligible == 60        \* sources the store may report as eligible

\* the store reports N eligible sources, in some fixed order
PagesInit ==
  /\ FetchIdle
  /\ cache = <<>>
  /\ response = NoResponse
  /\ served = 0
  /\ got = NoCall
  /\ written = <<>>
  /\ acc = <<>>
  /\ handlers = <<>>
  /\ store = CHOOSE st \in Stores : st.n = 0
  /\ \E N \in 0..MaxEligible, category \in {"tech", "world"} :
       req = [IdleReq EXCEPT !.route = "pages", !.pc = "distinct",
                !.category = category, !.balanced = TRUE, !.page = 0,
                !.distinctSources = [i \in 1..N |-> ToString(i)]]

\* lines 369-404 for the next page: the window of that page is selected;
\* `seen` collects the sources selected so far
WalkPage ==
  /\ req.route = "pages"
  /\ req.page < MaxEligible
  /\ LET page == req.page + 1
         selected == selectedSources(req.distinctSources, Query(req), page)
     IN req' = [req EXCEPT !.page = page, !.selectedSources = selected,
                           !.seen = @ \cup SeqToSet(selected)]
  /\ UNCHANGED <<handlers, acc, got, written, store, cache, response, served,
                 now, lastRequestTime, stamps, calls, disk>>

PagesNext == WalkPage

vars == <<now, lastRequestTime, stamps, calls, disk, store, cache, req,
         response, served, got, written, acc, handlers>>

FetchInit == FetchIdle /\ ServeOff

SoloInit == SoloStart /\ ServeOff

\* concurrent fetchXML calls
Spec == FetchInit /\ [][FetchNext]_vars

\* one fetchXML call on its own
SpecSolo == SoloInit /\ [][SoloNext]_vars

\* one fetchXML call on its own, when time passes, every timer fires, and
\* every network attempt and every file operation settles
SoloFairness ==
  /\ WF_vars(RateLimitWake(1))
  /\ WF_vars(Respond(1))
  /\ WF_vars(WriteFile(1))
  /\ WF_vars(ReadFile(1))
  /\ WF_vars(Unlink(1))
  /\ WF_vars(RetryWake(1))
  /\ WF_vars(TickSolo)

SpecSoloLive == SoloInit /\ [][SoloNext]_vars /\ SoloFairness

\* the list route, one request after the other
SpecList == ListInit /\ [][ListNext]_vars

\* the by-category route
SpecCategory == CategoryInit /\ [][CategoryNext]_vars

\* the cache module under direct calls
SpecCache == CacheInit /\ [][CacheNext]_vars

\* the combine step under direct calls
SpecCombine == CombineInit /\ [][CombineNext]_vars

\* concurrent list requests with a random sort
SpecKey == KeyInit /\ [][KeyNext]_vars

SpecPages == PagesInit /\ [][PagesNext]_vars

SpecRandom == RandomInit /\ [][RandomNext]_vars

(***************************************************************************)
(* Fetch client: properties                                                *)
(***************************************************************************)
Terminal == {"done", "failed"}

\* C1 (as claimed): for every origin, any two consecutive timestamps recorded
\* by waitForRateLimit are at least the profile's delay apart, in every
\* interleaving of concurrent fetchXML calls.
C1_SpacingRespected ==
  \A d \in Domains :
    Len(stamps[d]) = 2 =>
      stamps[d][2] - stamps[d][1] >= getRateLimitSettings(d).delay

\* C2: a call whose every attempt is answered 429 makes exactly maxRetries
\* network attempts (3 by default, 5 for www.thestar.com) and then fails;
\* no call ever makes attempt maxRetries + 1.
C2_ExactlyMaxRetriesAttempts ==
  \A c \in Calls :
    LET ceiling == IF calls[c].domain = "www.thestar.com" THEN 5 ELSE 3
    IN /\ calls[c].requests <= ceiling
       /\ (calls[c].all429 /\ calls[c].pc \in Terminal) =>
             (calls[c].pc = "failed" /\ calls[c].requests = ceiling)
       /\ (calls[c].all429 /\ calls[c].requests = ceiling) =>
             calls[c].pc \in {"request", "failed"}

C2_Witness ==
  \E c \in Calls :
    /\ calls[c].pc = "failed"
    /\ calls[c].all429
    /\ calls[c].domain = "www.thestar.com"
    /\ calls[c].requests = 5

\* C3: after failed attempt n < maxRetries the call sleeps retryDelay * n on
\* a 429, 2 * retryDelay on a 403 and retryDelay on a timeout or any other
\* failure, retryDelay being the base value of the origin's profile.
C3_RetryDelay ==
  \A c \in Calls :
    calls[c].pc = "retryWait" =>
      LET base == IF calls[c].domain = "www.thestar.com" THEN 5 ELSE 2
          n == calls[c].attempt
          expected == CASE calls[c].lastError = "429" -> base * n
                        [] calls[c].lastError = "403" -> 2 * base
                        [] OTHER -> base
      IN /\ calls[c].lastDelay = expected
         /\ calls[c].wakeAt >= LastRequest(calls[c].domain) + expected

C3_Witness ==
  \E c \in Calls :
    /\ calls[c].pc = "retryWait"
    /\ calls[c].lastError = "429"
    /\ calls[c].attempt = 4
    /\ calls[c].lastDelay = 20

\* C4 (as claimed): in download-first mode, once fetchXML has returned or
\* thrown, no temp file created by that call exists on disk.
C4_NoTempFileLeft ==
  \A c \in Calls :
    (calls[c].isDownloadable /\ calls[c].pc \in Terminal) =>
      ~ \E f \in disk : f[1] = c

(***************************************************************************)
(* Balanced selection and list route: properties                           *)
(***************************************************************************)
Answered(route) == req.pc = "done" /\ req.route = route

\* number of articles of source src in a page
Contribution(articles, src) ==
  Cardinality({ i \in 1..Len(articles) : articles[i].source = src })

\* articles of source src the store holds inside the request's window
Held(src) ==
  Cardinality(Matching(store, [source |-> src, category |-> req.category,
                               since |-> req.since]))

\* C5 (as claimed): when the sub-query of one selected source fails and the
\* others succeed, the list request is still answered with a page (built
\* from the other sources); one failure never fails the whole request.
C5_SubqueryFailureIsolated ==
  (/\ Answered("list")
   /\ req.balanced
   /\ Len(req.selectedSources) >= 2
   /\ Cardinality(req.failed) = 1
   /\ req.pending = {}) =>
     (/\ response.status = 200
      /\ \A i \in 1..Len(response.articles) :
            response.articles[i].source \in
              SeqToSet(req.selectedSources)
                \ { req.selectedSources[j] : j \in req.failed })

RegionSets ==
  { {"channelnewsasia", "japantimes", "thehindubusinessline"},
    {"bbc", "france24", "euronews", "express"},
    {"cbc", "cbsnews", "nypost"},
    {"reuters", "wsj", "rt"} }

\* C6 (as claimed): for category world, when the source budget is at least
\* the number of regions, every region with no source in the page's sliding
\* window has a source in the final selected set, and the selected set never
\* exceeds the budget.
C6_RegionsRepresented ==
  (/\ req.pc \in {"subqueries", "done"}
   /\ req.balanced
   /\ req.category = "world"
   /\ req.page >= 1
   /\ req.limit >= 1
   /\ Len(req.distinctSources) >= 2
   /\ sourcesPerPage(req.distinctSources) >= Cardinality(RegionSets)) =>
     LET budget == sourcesPerPage(req.distinctSources)
         window == SeqToSet(SlidingWindow(req.distinctSources, req.page))
     IN /\ Len(req.selectedSources) <= budget
        /\ \A region \in RegionSets :
              region \cap window = {} =>
                region \cap SeqToSet(req.selectedSources) # {}

\* the case C7 is about: a page of balanced selection over N >= 1 eligible
\* sources that each hold at least the quota, for a limit of at least 1
C7_Case ==
  /\ Answered("category")
  /\ response.status = 200
  /\ req.page >= 1
  /\ req.limit >= 1
  /\ req.limit <= 100
  /\ Len(req.distinctSources) >= 1
  /\ \A i \in 1..Len(req.distinctSources) :
        Held(req.distinctSources[i]) >= req.articlesPerSource

\* C7 (as claimed): no single source contributes more than
\* ceil(limit / N) + 1 articles to the page, for every category.
C7_FairnessBound ==
  C7_Case =>
    \A i \in 1..Len(req.distinctSources) :
      Contribution(response.articles, req.distinctSources[i])
        <= CeilDiv(req.limit, Len(req.distinctSources)) + 1

\* C7 (amended): no single source contributes more than the limit, nor more
\* than the category's per-source quota: with share = max(2, ceil(limit /
\* min(S, 20))) over the S selected sources, min(6, share + 2) for science,
\* min(4, share + 1) for technology and for business below 15 selected
\* sources, min(2, share) for world, min(3, share) otherwise.
C7_QuotaBound ==
  C7_Case =>
    LET S == Len(req.selectedSources)
        divisor == IF S < 20 THEN S ELSE 20
        share == IF CeilDiv(req.limit, divisor) > 2
                   THEN CeilDiv(req.limit, divisor) ELSE 2
        capped(cap, n) == IF n < cap THEN n ELSE cap
        quota == CASE req.category = "science" -> capped(6, share + 2)
                   [] req.category = "technology" -> capped(4, share + 1)
                   [] req.category = "business" /\ S < 15 ->
                        capped(4, share + 1)
                   [] req.category = "world" -> capped(2, share)
                   [] OTHER -> capped(3, share)
    IN \A i \in 1..Len(req.distinctSources) :
         /\ Contribution(response.articles, req.distinctSources[i]) <= quota
         /\ Contribution(response.articles, req.distinctSources[i])
              <= req.limit

\* a page where one source fills its quota and that is more than
\* ceil(limit / N) + 1
C7_Witness ==
  /\ C7_Case
  /\ Len(req.distinctSources) >= 2
  /\ \E i \in 1..Len(req.distinctSources) :
        /\ Contribution(response.articles, req.distinctSources[i])
             = req.articlesPerSource
        /\ req.articlesPerSource
             > CeilDiv(req.limit, Len(req.distinctSources)) + 1

\* C8 (as claimed): when the eligible sources are x (many articles) and y
\* (at least one) and limit >= 2, page 1 of balanced selection contains an
\* article of y, whatever order the store reports the sources in.
C8_LowVolumeSourcePresent ==
  (/\ Answered("category")
   /\ response.status = 200
   /\ req.page = 1
   /\ req.limit >= 2
   /\ SeqToSet(req.distinctSources) = {"x", "y"}) =>
     (/\ Contribution(response.articles, "y") >= 1
      /\ Contribution(response.articles, "x") < Len(response.articles))

ValidSorts == {"newest", "popular", "random", "semiRandom"}

\* C9 (as claimed): a list request whose sort is not newest, popular, random
\* or semiRandom always gets HTTP 400 naming the sort value, whatever the
\* store and the cache hold.
C9_InvalidSortRejected ==
  (Answered("list") /\ req.sort \notin ValidSorts) =>
    (/\ response.status = 400
     /\ response.error = "Invalid sort method: " \o req.sort)

\* C10 (as claimed): a list request with an unrecognized sort is answered
\* 400 without any store query having been issued.
C10_NoQueryBeforeRejection ==
  (Answered("list") /\ req.sort \notin ValidSorts
     /\ response.status = 400) =>
    req.queries = <<>>

\* a store query that depends on page or limit has been issued
Paging == req.pc \in {"find", "distinct", "subqueries", "sampleFind"}

\* C11 (as claimed): whenever balanced selection or a paged store query is
\* reached, on the list route and on the by-category route, the effective
\* page is at least 1 and the effective limit lies in 1..100, whatever the
\* raw page and limit were.
C11_EffectiveRange ==
  Paging => (req.page >= 1 /\ req.limit >= 1 /\ req.limit <= 100)

\* C12: on the list route a requested page below 1 is served as page 1 and a
\* requested limit above 100 as limit 100, from before the first query that
\* depends on them, and the response reports the clamped values (page=0,
\* limit=500 is served as page=1, limit=100).
C12_ListClamps ==
  (req.route = "list" /\ req.pc # "idle") =>
    /\ (req.rawPage.kind = "num" /\ req.rawPage.n < 1) => req.page = 1
    /\ (req.rawLimit.kind = "num" /\ req.rawLimit.n > 100) => req.limit = 100
    /\ (req.pc = "done" /\ response.status = 200) =>
         (response.page = req.page /\ response.limit = req.limit)

C12_Witness ==
  /\ Answered("list")
  /\ response.status = 200
  /\ req.rawPage = Num(0)
  /\ req.rawLimit = Num(500)
  /\ response.page = 1
  /\ response.limit = 100
  /\ Len(req.queries) >= 2

(***************************************************************************)
(* Cache module: properties                                                *)
(***************************************************************************)
\* C13: getCache(k) returns v exactly when the most recent setCache on k
\* stored v and the clock has not passed that entry's expiry (set time +
\* ttlSeconds); otherwise it reports a miss, and after a miss the Map holds
\* no entry for k.
C13_GetReturnsLiveEntry ==
  got.op = "get" =>
    LET k == got.key
        live == k \in DOMAIN written
                  /\ ~ (now > written[k].at + written[k].ttl)
    IN /\ got.hit <=> live
       /\ got.hit => got.data = written[k].data
       /\ ~ got.hit => k \notin DOMAIN cache

\* a getCache on an entry whose expiry has passed: a miss, and the entry is
\* gone
C13_Witness ==
  /\ got.op = "get"
  /\ got.prior = "expired"
  /\ ~ got.hit
  /\ got.key \in DOMAIN written
  /\ got.key \notin DOMAIN cache

\* C14: setCache(k, v2, ttl2) replaces whatever was stored under k, value
\* and expiry together: afterwards the entry holds v2, expires at the time
\* of this set + ttl2 and getCache(k) returns v2, whether the earlier entry
\* was absent, live or expired and whatever it held.
C14_SetReplaces ==
  got.op = "set" =>
    /\ got.key \in DOMAIN cache
    /\ cache[got.key] = [data |-> got.data, expiry |-> now + got.ttl]
    /\ CacheHit(cache, got.key)
    /\ \A k \in (DOMAIN cache) \ {got.key} :
          k \in DOMAIN written /\ cache[k].data = written[k].data

\* a set with another value and a longer ttl over an entry that had expired
\* but was still in the Map
C14_Witness ==
  /\ got.op = "set"
  /\ got.prior = "expired"
  /\ got.priorData # got.data
  /\ got.ttl = MaxTtl
  /\ cache[got.key].data = got.data

(***************************************************************************)
(* List route: properties of the paths around balanced selection           *)
(***************************************************************************)
\* C15 (as claimed): a list request with sort = newest and a non-empty
\* source filter over a non-empty filtered corpus never enters balanced
\* selection and is answered with exactly the store's newest-first result
\* for that filter, skip = (page - 1) * limit and the clamped limit,
\* whatever the cache holds.
C15_SourceFilterBypasses ==
  (/\ Answered("list")
   /\ req.sort = "newest"
   /\ req.source # NoValue
   /\ req.total > 0
   /\ response.status = 200) =>
     /\ ~ req.balanced
     /\ response.articles =
          find(store, Query(req), (req.page - 1) * req.limit, req.limit)

\* C16 (as claimed): when countDocuments reports 0 for the filter, the list
\* route and the by-category route answer with an empty page (total 0, no
\* articles) without entering getBalancedArticles and without issuing any
\* distinct or find query.
C16_EmptyCorpusShortCircuits ==
  (/\ req.pc = "done"
   /\ req.route \in {"list", "category"}
   /\ req.total = 0
   /\ Len(req.queries) >= 1) =>
     /\ response.status = 200
     /\ response.total = 0
     /\ response.articles = <<>>
     /\ ~ req.balanced
     /\ req.queries = <<"countDocuments">>

(***************************************************************************)
(* Fetch client: origins, attempts and the thrown error                    *)
(***************************************************************************)
\* C17: calls to different origins never block each other.  In every step
\* of a call to origin A, the timestamp of every other origin is left
\* alone, the time the call is put to sleep in waitForRateLimit is
\* max(0, A's last request + A's delay - now), and the call goes straight
\* to its request only when that time is 0.
C17_OriginsIndependent ==
  [][\A c \in Calls :
       calls'[c] # calls[c] =>
         LET A == calls'[c].domain
             own == IF A \in DOMAIN lastRequestTime
                      THEN lastRequestTime[A] ELSE 0
             due == own + getRateLimitSettings(A).delay - now
             timeToWait == IF due > 0 THEN due ELSE 0
         IN /\ \A B \in Domains \ {A} :
                 /\ stamps'[B] = stamps[B]
                 /\ (B \in DOMAIN lastRequestTime')
                      <=> (B \in DOMAIN lastRequestTime)
                 /\ B \in DOMAIN lastRequestTime =>
                      lastRequestTime'[B] = lastRequestTime[B]
            /\ (calls'[c].pc = "rateWait") =>
                 calls'[c].wakeAt = now + timeToWait
            /\ (calls'[c].pc = "request" /\ calls[c].pc # "rateWait") =>
                 timeToWait = 0
    ]_vars

\* a call to one origin sends its first request, without waiting, at a
\* moment when the window of the other origin is still closed
C17_Witness ==
  \E c \in Calls, A \in Domains :
    /\ A # calls[c].domain
    /\ calls[c].pc = "request"
    /\ calls[c].requests = 1
    /\ stamps[calls[c].domain] = <<now>>
    /\ A \in DOMAIN lastRequestTime
    /\ lastRequestTime[A] < now
    /\ lastRequestTime[A] + getRateLimitSettings(A).delay > now

\* C18 (as claimed): fetchXML makes at most maxRetries attempts; once an
\* attempt has been answered 2xx the call makes no further attempt and
\* returns that content; it throws only after maxRetries attempts that all
\* failed, with the cause of the last one.
C18_FirstSuccessReturns ==
  \A c \in Calls :
    LET frame == calls[c]
        maxRetries == getRateLimitSettings(frame.domain).maxRetries
        answered2xx == frame.tmpFilename # <<>> \/ frame.pc = "done"
    IN /\ frame.requests <= maxRetries
       /\ frame.tmpFilename # <<>> =>
            /\ frame.requests = frame.tmpFilename[2]
            /\ frame.pc # "failed"
       /\ frame.pc = "failed" =>
            /\ frame.requests = maxRetries
            /\ ~ answered2xx
            /\ frame.lastError \in Outcomes \ {"ok"}

(***************************************************************************)
(* Combine step: properties                                                *)
(***************************************************************************)
Combined == req.route = "balanced" /\ req.pc = "done"

\* the positions of the lists that are not empty, in list order
NonEmptyIndexes ==
  { j \in 1..Len(req.sourceArticles) : Len(req.sourceArticles[j]) > 0 }

\* C19 (as claimed): article i (0-based) of the source at index j (0-based)
\* of the S selected sources sits at position i * S + j of the working
\* array, j being the index in the selected-source list, also when some
\* selected sources returned nothing.
C19_PositionBySelectedIndex ==
  Combined =>
    LET S == Len(req.selectedSources)
    IN \A j \in 1..S : \A i \in 1..Len(req.sourceArticles[j]) :
         /\ ((i - 1) * S + (j - 1)) \in DOMAIN acc
         /\ acc[(i - 1) * S + (j - 1)] = req.sourceArticles[j][i]

\* C19 (amended): article i of a source sits at position i * S + j', where
\* S is the number of selected sources and j' is the source's index among
\* the selected sources that returned at least one article (the sources
\* that returned nothing are dropped before the indexes are given out);
\* no other position is filled.
C19_PositionByNonEmptyIndex ==
  Combined =>
    LET S == Len(req.selectedSources)
        rank(j) == Cardinality({ k \in NonEmptyIndexes : k < j })
        filled == { (i - 1) * S + rank(j) :
                      <<j, i>> \in { <<k, h>> \in NonEmptyIndexes \X (1..MaxListLen) :
                                       h <= Len(req.sourceArticles[k]) } }
    IN /\ DOMAIN acc = filled
       /\ \A j \in NonEmptyIndexes : \A i \in 1..Len(req.sourceArticles[j]) :
            acc[(i - 1) * S + rank(j)] = req.sourceArticles[j][i]

\* the first selected source returned nothing and a later one two articles:
\* the later source's articles sit at positions 0 and S
C19_Witness ==
  /\ Combined
  /\ Len(req.selectedSources) = 3
  /\ req.sourceArticles[1] = <<>>
  /\ Len(req.sourceArticles[2]) = 2
  /\ Len(req.sourceArticles[3]) >= 1
  /\ acc[0] = req.sourceArticles[2][1]
  /\ acc[3] = req.sourceArticles[2][2]
  /\ acc[1] = req.sourceArticles[3][1]

\* the articles the sub-queries returned
Fetched ==
  UNION { SeqToSet(req.sourceArticles[j]) : j \in 1..Len(req.sourceArticles) }

\* C20: the list getBalancedArticles returns is in publication-time
\* descending order, has at most `limit` elements, and holds the `limit`
\* most recent of the articles the sub-queries returned (all of them when
\* fewer than `limit` were returned).
C20_NewestWithinLimit ==
  Combined =>
    LET out == response.articles
        kept == SeqToSet(out)
    IN /\ \A i \in 1..(Len(out) - 1) : out[i].pubDate >= out[i + 1].pubDate
       /\ Len(out) <= req.limit
       /\ Len(out) = (IF Cardinality(Fetched) < req.limit
                        THEN Cardinality(Fetched) ELSE req.limit)
       /\ Cardinality(kept) = Len(out)
       /\ kept \subseteq Fetched
       /\ \A a \in kept : \A b \in Fetched \ kept : a.pubDate >= b.pubDate

\* more articles than the limit were returned and the newest of them is not
\* among the first `limit` of the interleaved order
C20_Witness ==
  /\ Combined
  /\ Cardinality(Fetched) > req.limit
  /\ Len(response.articles) = req.limit
  /\ \E b \in Fetched :
       /\ \A a \in Fetched : a.pubDate < b.pubDate \/ a = b
       /\ b = response.articles[1]
       /\ b \notin SeqToSet(Slice0(Interleave(req.sourceArticles,
                                              Len(req.selectedSources)),
                                   req.limit))

(***************************************************************************)
(* Balanced selection: window, quota, memoized pages                       *)
(***************************************************************************)
\* balanced selection has chosen its sources for the request
Selected == req.balanced /\ req.pc \in {"subqueries", "done"}

\* C21 (as claimed): when the N >= 2 eligible sources exceed the per-page
\* budget, the selected window for page >= 1 has exactly budget-many distinct
\* sources, starts at offset ((page - 1) * (budget - overlap)) mod N, and
\* shares at least one source with the window of page + 1.
C21_ConsecutiveWindowsShare ==
  (/\ Selected
   /\ req.page >= 1
   /\ req.limit >= 1
   /\ Len(req.distinctSources) >= 2
   /\ Len(req.distinctSources) > sourcesPerPage(req.distinctSources)) =>
     LET N == Len(req.distinctSources)
         budget == sourcesPerPage(req.distinctSources)
         overlap == overlapSources(req.distinctSources)
         start == ((req.page - 1) * (budget - overlap)) % N
     IN /\ Len(req.selectedSources) = budget
        /\ Cardinality(SeqToSet(req.selectedSources)) = budget
        /\ \A i \in 1..budget :
              req.selectedSources[i] =
                req.distinctSources[((start + i - 1) % N) + 1]
        /\ SeqToSet(SlidingWindow(req.distinctSources, req.page))
             \cap SeqToSet(SlidingWindow(req.distinctSources, req.page + 1))
               # {}

\* the cap of calculateArticlesPerSource for a category
CategoryCap(category, sourceCount) ==
  CASE category = "science" -> 6
    [] category = "technology" -> 4
    [] category = "business" -> IF sourceCount < 15 THEN 4 ELSE 3
    [] category = "world" -> 2
    [] OTHER -> 3

\* C22 (as claimed): for every selected-source count >= 1, every category
\* and every limit in 1..100, the per-source quota is at least 1, at most the
\* category's cap and at most the page limit.
C22_QuotaWithinCapAndLimit ==
  (/\ Selected
   /\ Len(req.selectedSources) >= 1
   /\ req.limit >= 1
   /\ req.limit <= 100) =>
     /\ req.articlesPerSource >= 1
     /\ req.articlesPerSource
          <= CategoryCap(req.category, Len(req.selectedSources))
     /\ req.articlesPerSource <= req.limit

\* C23 (as claimed): the number of articles in a list response never exceeds
\* the request's effective limit, whether the page was computed for this
\* request or taken from the cache.
C23_ResponseWithinLimit ==
  (Answered("list") /\ response.status = 200 /\ req.limit >= 1) =>
    Len(response.articles) <= req.limit

\* C24: eviction is lazy and local.  The entry of key k changes only when
\* setCache(k, ...) replaces it and leaves the Map only in a getCache(k) made
\* after its expiry; the passage of time, a getCache on k before the expiry
\* and any call on another key leave the entry (value and expiry) as it was.
C24_LazyLocalEviction ==
  [][\A k \in DOMAIN cache :
       (k \notin DOMAIN cache' \/ cache'[k] # cache[k]) =>
         \/ /\ got'.op = "get"
            /\ got'.key = k
            /\ now > cache[k].expiry
            /\ k \notin DOMAIN cache'
         \/ /\ got'.op = "set"
            /\ got'.key = k
            /\ k \in DOMAIN cache'
    ]_vars

\* an entry that expired is still in the Map after a getCache on another key
C24_Witness ==
  /\ got.op = "get"
  /\ \E k \in DOMAIN cache :
       /\ k # got.key
       /\ now > cache[k].expiry
       /\ k \in DOMAIN written
       /\ cache[k].data = written[k].data

(***************************************************************************)
(* Concurrent random requests: properties                                  *)
(***************************************************************************)
\* C25 (as claimed): list requests with the same random sort, source,
\* category and page that are all answered within one TTL window of the
\* first one's arrival get the same memoized article list, and at most one
\* of them samples the store, also when they are in flight together.
C25_OneSamplePerWindow ==
  \A g \in DOMAIN handlers, h \in DOMAIN handlers :
    (/\ g < h
     /\ handlers[g].pc = "done"
     /\ handlers[h].pc = "done"
     /\ handlers[g].sort = handlers[h].sort
     /\ handlers[g].source = handlers[h].source
     /\ handlers[g].category = handlers[h].category
     /\ handlers[g].page = handlers[h].page
     /\ handlers[h].doneAt - handlers[g].at < TTL) =>
       /\ handlers[g].articles = handlers[h].articles
       /\ ~ (handlers[g].sampled /\ handlers[h].sampled)

(***************************************************************************)
(* Fetch client: order of attempts, timestamps, termination                *)
(***************************************************************************)
\* the retry delay the catch block owes after a failure of this kind in
\* attempt n
OwedDelay(domain, lastError, n) ==
  LET base == getRateLimitSettings(domain).retryDelay
  IN CASE lastError = "429" -> base * n
       [] lastError = "403" -> 2 * base
       [] OTHER -> base

\* C26: within one fetchXML call attempts never overlap.  A request is in
\* flight only for the current loop iteration and is the only one made in
\* it; a new attempt starts only from the start of the call or from a sleep
\* whose timer is due; attempt n + 1 is sent no earlier than the retry delay
\* owed for attempt n after attempt n, and every attempt, the first
\* included, is sent no earlier than the origin's delay after the previous
\* request to that origin.
C26_AttemptsInSequence ==
  /\ [](\A c \in Calls :
          LET f == calls[c]
              times == stamps[f.domain]
              gap == times[2] - times[1]
          IN /\ f.pc \in {"request", "writeFile", "readFile", "unlink",
                          "retryWait", "done"} => f.requests = f.attempt
             /\ f.pc = "rateWait" => f.requests = f.attempt - 1
             /\ (f.requests >= 1 /\ Len(times) = 2) =>
                  gap >= getRateLimitSettings(f.domain).delay
             /\ (f.pc = "request" /\ f.requests >= 2) =>
                  gap >= OwedDelay(f.domain, f.lastError, f.attempt - 1))
  /\ [][\A c \in Calls :
          calls'[c].requests # calls[c].requests =>
            /\ calls'[c].requests = calls[c].requests + 1
            /\ calls'[c].pc = "request"
            /\ calls[c].pc \in {"idle", "retryWait", "rateWait"}
            /\ calls[c].pc \in {"retryWait", "rateWait"} =>
                 now >= calls[c].wakeAt
       ]_vars

\* the third attempt of a call to www.thestar.com is in flight, 10 s after
\* the second one was answered 403
C26_Witness ==
  \E c \in Calls :
    /\ calls[c].pc = "request"
    /\ calls[c].domain = "www.thestar.com"
    /\ calls[c].requests = 3
    /\ calls[c].lastError = "403"
    /\ stamps["www.thestar.com"][2] - stamps["www.thestar.com"][1] = 10

\* number of entries of a sequence equal to x
CountOf(seq, x) == Cardinality({ i \in 1..Len(seq) : seq[i] = x })

\* C27 (as claimed): in balanced selection the sub-queries of all selected
\* sources are issued before any result is awaited, the lists are combined
\* only after every sub-query has settled, and when one sub-query fails the
\* siblings still run to completion and their results are used for the
\* answer.
C27_FanOutFanIn ==
  /\ (req.balanced /\ req.pc = "subqueries") =>
       CountOf(req.queries, "find") = Len(req.selectedSources)
  /\ (req.balanced /\ req.pc = "done" /\ response.status = 200) =>
       req.pending = {}
  /\ (/\ req.balanced
      /\ req.pc = "done"
      /\ req.failed # {}
      /\ Len(req.selectedSources) >= 2
      /\ req.page >= 1
      /\ req.limit >= Len(req.selectedSources) * req.articlesPerSource) =>
       \A j \in 1..Len(req.selectedSources) :
         (j \notin req.failed /\ Held(req.selectedSources[j]) >= 1) =>
           \E i \in 1..Len(response.articles) :
              response.articles[i].source = req.selectedSources[j]

\* C28: the timestamp of an origin exists from the first attempt to that
\* origin on, every attempt (first try or retry, whatever its outcome will
\* be) sets it to the time of the attempt, it never decreases and it is never
\* removed, however the calls interleave.
C28_TimestampLifecycle ==
  /\ [](\A c \in Calls :
          calls[c].requests >= 1 => calls[c].domain \in DOMAIN lastRequestTime)
  /\ [][/\ \A d \in DOMAIN lastRequestTime :
             /\ d \in DOMAIN lastRequestTime'
             /\ lastRequestTime'[d] >= lastRequestTime[d]
        /\ \A c \in Calls :
             calls'[c].requests = calls[c].requests + 1 =>
               /\ calls'[c].domain \in DOMAIN lastRequestTime'
               /\ lastRequestTime'[calls'[c].domain] = now']_vars

\* a retry has refreshed the timestamp its first try created
C28_Witness ==
  \E c \in Calls :
    /\ calls[c].requests = 2
    /\ calls[c].lastError # "none"
    /\ Len(stamps[calls[c].domain]) = 2
    /\ stamps[calls[c].domain][1] < stamps[calls[c].domain][2]
    /\ lastRequestTime[calls[c].domain] = stamps[calls[c].domain][2]

C30_OnlyEligibleArticles ==
  /\ (/\ Answered("category")
      /\ response.status = 200
      /\ req.page >= 1
      /\ req.limit >= 1) =>
       /\ SeqToSet(req.selectedSources) \subseteq SeqToSet(req.distinctSources)
       /\ \A i \in 1..Len(response.articles) :
            /\ response.articles[i].source \in SeqToSet(req.selectedSources)
            /\ response.articles[i].pubDate >= req.since
            /\ response.articles[i].source # NullSource
            /\ response.articles[i].pubDate # NoDate
            /\ \A k \in 1..Len(response.articles) :
                 response.articles[k] = response.articles[i] => k = i
  /\ (Answered("category") /\ store.orphans # "none" /\ req.failed = {}) =>
       response.status = 200

\* C31 (as claimed): the cache key of the list endpoint is injective: two
\* requests with the same key have the same sort, the same source filter,
\* the same category filter and the same page.
C31_KeyInjective ==
  \A g \in DOMAIN handlers : \A h \in DOMAIN handlers :
    handlers[g].key = handlers[h].key =>
      /\ handlers[g].sort = handlers[h].sort
      /\ handlers[g].source = handlers[h].source
      /\ handlers[g].category = handlers[h].category
      /\ handlers[g].page = handlers[h].page

\* C32: the interleave loses no article: no two fetched articles are written
\* to the same position, so the working sequence, before it is sorted and
\* truncated, holds every fetched article exactly once.
C32_InterleaveKeepsAll ==
  Combined =>
    /\ { acc[p] : p \in DOMAIN acc } = Fetched
    /\ Cardinality(DOMAIN acc) = Cardinality(Fetched)
    /\ Len(Interleave(req.sourceArticles, Len(req.selectedSources)))
         = Cardinality(Fetched)

\* three sources were selected, the first returned nothing and the other two
\* returned two articles each
C32_Witness ==
  /\ Combined
  /\ Len(req.selectedSources) = 3
  /\ Len(req.sourceArticles[1]) = 0
  /\ Len(req.sourceArticles[2]) = 2
  /\ Len(req.sourceArticles[3]) = 2
  /\ Cardinality(DOMAIN acc) = 4

\* C33: pagination reaches every eligible source: once as many pages as
\* there are eligible sources have been requested, every eligible source has
\* been in the window of one of them.
C33_EverySourceOnSomePage ==
  (req.route = "pages" /\ req.page >= Len(req.distinctSources)) =>
    SeqToSet(req.distinctSources) \subseteq req.seen

\* more than 50 sources are eligible, so that a window holds 25 of them, and
\* the last of them has been reached
C33_Witness ==
  /\ req.route = "pages"
  /\ Len(req.distinctSources) > 50
  /\ Len(req.selectedSources) = 25
  /\ req.page >= 2
  /\ req.seen = SeqToSet(req.distinctSources)

\* C34: the list endpoint stores the balanced page of a newest request
\* without source for 300 s; a request with the same sort, category and page
\* and no source that looks the page up no later than 300 s after it was
\* stored is answered with the stored page and runs no balanced selection,
\* and the first one that comes later starts the selection anew; a request
\* with sort popular, or with sort newest and a source, stores nothing.
C34_MemoizedPageServed ==
  [][LET key == cacheKey(req.sort, req.source, req.category, req.page)
         balancedNewest ==
           req.route = "list" /\ req.sort = "newest" /\ req.source = NoValue
     IN /\ (/\ balancedNewest
            /\ req.balanced
            /\ req.pc \in {"distinct", "subqueries"}
            /\ req'.pc = "done"
            /\ response'.status = 200) =>
              /\ key \in DOMAIN cache'
              /\ cache'[key] = [data |-> response'.articles,
                                expiry |-> now + TTL]
        /\ (/\ balancedNewest
            /\ req.pc = "count"
            /\ req'.pc # "count"
            /\ req'.total > 0
            /\ key \in DOMAIN cache) =>
              IF now - (cache[key].expiry - TTL) <= TTL
                THEN /\ req'.pc = "done"
                     /\ req'.queries = <<"countDocuments">>
                     /\ response'.status = 200
                     /\ response'.articles = cache[key].data
                     /\ cache' = cache
                ELSE /\ req'.pc = "distinct"
                     /\ key \notin DOMAIN cache'
        /\ (/\ req.route = "list"
            /\ \/ req.sort = "popular"
               \/ req.sort = "newest" /\ req.source # NoValue) =>
              \A k \in DOMAIN cache' : k \in DOMAIN cache /\ cache'[k] = cache[k]
    ]_vars

\* the second of two equal newest requests without source was answered from
\* the cache, 151 s after the first one stored its page
C34_Witness ==
  /\ req.route = "list"
  /\ req.pc = "done"
  /\ req.sort = "newest"
  /\ req.source = NoValue
  /\ served = 2
  /\ req.total > 0
  /\ req.queries = <<"countDocuments">>
  /\ now > StartNow
  /\ cacheKey(req.sort, req.source, req.category, req.page) \in DOMAIN cache
  /\ response.articles # <<>>
  /\ response.articles =
       cache[cacheKey(req.sort, req.source, req.category, req.page)].data

\* C35: no retry delay is slept after the last permitted attempt failed: the
\* error is thrown in the step in which that attempt fails.  A call that
\* threw has slept once less than it had failed attempts, and a call that
\* returned has slept once per failed attempt.
C35_NoSleepAfterLastAttempt ==
  /\ [](/\ calls[1].pc = "failed" =>
             /\ calls[1].attempt - 1 =
                  getRateLimitSettings(calls[1].domain).maxRetries
             /\ calls[1].sleeps = (calls[1].attempt - 1) - 1
        /\ calls[1].pc = "done" => calls[1].sleeps = calls[1].attempt - 1)
  /\ [][calls'[1].pc = "failed" =>
          calls[1].pc \in {"request", "writeFile", "readFile", "unlink"}]_vars

\* a call returned from its third attempt, after two failed ones
C35_Witness ==
  /\ calls[1].pc = "done"
  /\ calls[1].attempt = 3
  /\ calls[1].sleeps = 2
  /\ calls[1].lastError # "none"

====
